---- MODULE Spec2Model ----
(***************************************************************************)
(* Model of etl.py: the Sparkify data-lake ETL.  main() reads the song     *)
(* catalog and the event log, writes the four dimension tables, left-joins *)
(* the play events with the catalog and writes the songplays fact table.   *)
(*                                                                         *)
(* Conventions of the model                                                *)
(*  - a DataFrame is a sequence of rows, a row is a record; a dataset on   *)
(*    disk is a record [partitionBy, rows];                                *)
(*  - a JSON null is NULL for strings, <<>> for the ts column;             *)
(*  - a ts value is <<s, ms>>, standing for the long s * 1000 + ms (the    *)
(*    epoch milliseconds of the 2001..2018 events exceed the 32-bit        *)
(*    integers of the model checker);                                      *)
(*  - a songplay_id is <<p, n>>, standing for the 64-bit value             *)
(*    p * 2^33 + n that monotonically_increasing_id() builds from the      *)
(*    partition index p and the record number n inside the partition;      *)
(*  - every row read carries `line`, the index of the source record it     *)
(*    was read from, and the rows derived from the log keep it.  It is     *)
(*    bookkeeping of the model, not a column of the tables.                *)
(***************************************************************************)
EXTENDS Integers, Sequences, FiniteSets, TLC

VARIABLES
    songs_in,   \* the records under INPUT_SONG_DATA
    logs_in,    \* the records under INPUT_LOG_DATA
    tz,         \* offset in seconds of the local time zone of the session
    store,      \* the datasets under OUTPUT_DATA: path -> [partitionBy, rows]
    pc,         \* the statement of main() that runs next, or done / aborted
    song_df,    \* main's song_df
    log_df,     \* main's log_df
    joined,     \* process_songplay_data's df after the join
    rerun,      \* this is the second invocation of main() on the same OUTPUT_DATA
    trace,      \* the steps this run has completed, in order
    failure,    \* why and where this run aborted
    before,     \* the store as this run found it
    prevDone    \* the invocation before this one ran to completion

vars == <<songs_in, logs_in, tz, store, pc, song_df, log_df, joined, rerun, trace,
          failure, before, prevDone>>

\* ---------------------------------------------------------------- bounds
MaxSongs == 2
MaxLogs == 2
MaxParts == 2

NULL == "NULL"

\* ---------------------------------------------------------------- inputs
Song(id, title, aid, aname, yr) ==
    [song_id |-> id, title |-> title, artist_id |-> aid, artist_name |-> aname,
     artist_location |-> "NY", artist_latitude |-> 40, artist_longitude |-> -74,
     duration |-> 180, year |-> yr]

\* Catalog records: a pair with the same (artist_name, title), a case
\* variant of the title, and a record sharing only the title.
SongPool ==
    { Song("S1", "Test Song", "A1", "Test Artist", 2000),
      Song("S2", "Test Song", "A1", "Test Artist", 2001),
      Song("S3", "test song", "A1", "Test Artist", 2000),
      Song("S4", "Test Song", "A2", "Other Artist", 2000) }

Log(page, artist, song, ts, uid) ==
    [page |-> page, artist |-> artist, song |-> song, ts |-> ts, userId |-> uid,
     firstName |-> "F", lastName |-> "L", gender |-> "M", level |-> "free",
     sessionId |-> 5, location |-> "NY", userAgent |-> "x"]

\* Log records: a play of a catalogued song, a play of an unknown song at a
\* month boundary, a play whose artist only matches, a play with a null ts,
\* and two events that are not plays (one of them with a null ts).
LogPool ==
    { Log("NextSong", "Test Artist", "Test Song", <<1000000000, 0>>, "U1"),
      Log("NextSong", "Test Artist", "Other Song", <<1541030400, 796>>, "U1"),
      Log("NextSong", "Other Artist", "Test Song", <<1543622399, 0>>, "U2"),
      Log("NextSong", "Test Artist", "Test Song", <<>>, "U2"),
      Log("Login", NULL, NULL, <<1000000000, 0>>, "U1"),
      Log("Home", NULL, NULL, <<>>, "U2") }

\* The inputs of the runs that are repeated: the two catalog records with the
\* same key, and a matching play, a play with a null ts and an event that is
\* not a play, in one time zone.
RerunSongPool == { s \in SongPool : s.song_id \in {"S1", "S2"} }
RerunLogPool ==
    { l \in LogPool : l.page = "Home" \/ (l.artist = "Test Artist" /\ l.song = "Test Song") }

TzOffsets == {0, -18000}
RerunTzOffsets == { off \in TzOffsets : off < 0 }

SeqsUpTo(S, n) == UNION { [1..k -> S] : k \in 0..n }

\* ------------------------------------------------------- calendar fields
\* Days since 1970-01-01 of the local date of epoch second s.
LocalDays(s, off) == (s + off) \div 86400

\* (year, month, day-of-month) of a day number (proleptic Gregorian).
CivilFromDays(z) ==
    LET zz == z + 719468
        era == zz \div 146097
        doe == zz - era * 146097
        yoe == (doe - doe \div 1460 + doe \div 36524 - doe \div 146096) \div 365
        doy == doe - (365 * yoe + yoe \div 4 - yoe \div 100)
        mp == (5 * doy + 2) \div 153
        d == doy - (153 * mp + 2) \div 5 + 1
        m == IF mp < 10 THEN mp + 3 ELSE mp - 9
    IN  [year |-> yoe + era * 400 + (IF m <= 2 THEN 1 ELSE 0), month |-> m, day |-> d]

DaysFromCivil(y, m, d) ==
    LET yy == IF m <= 2 THEN y - 1 ELSE y
        era == yy \div 400
        yoe == yy - era * 400
        doy == (153 * (IF m > 2 THEN m - 3 ELSE m + 9) + 2) \div 5 + d - 1
        doe == yoe * 365 + yoe \div 4 - yoe \div 100 + doy
    IN  era * 146097 + doe - 719468

WeeksInYear(y) ==
    LET P(n) == (n + n \div 4 - n \div 100 + n \div 400) % 7
    IN  IF P(y) = 4 \/ P(y - 1) = 3 THEN 53 ELSE 52

\* pyspark.sql.functions.year / month / hour / dayofweek / weekofyear of a
\* timestamp, evaluated in the session's time zone.
year(t, off) == CivilFromDays(LocalDays(t.sec, off)).year
month(t, off) == CivilFromDays(LocalDays(t.sec, off)).month
hour(t, off) == ((t.sec + off) % 86400) \div 3600
\* 1 = Sunday .. 7 = Saturday
dayofweek(t, off) == ((LocalDays(t.sec, off) + 4) % 7) + 1
\* ISO 8601 week number
weekofyear(t, off) ==
    LET z == LocalDays(t.sec, off)
        y == CivilFromDays(z).year
        ordinal == z - DaysFromCivil(y, 1, 1) + 1
        isoDay == ((z + 3) % 7) + 1
        w == (ordinal - isoDay + 10) \div 7
    IN  IF w < 1 THEN WeeksInYear(y - 1)
        ELSE IF w > WeeksInYear(y) THEN 1 ELSE w

\* The udf get_timestamp: datetime.fromtimestamp(x / 1000) as a timestamp
\* (seconds and microseconds of the instant).  Undefined on a null ts: the
\* lambda raises there.
get_timestamp(x) == [sec |-> x[1], us |-> x[2] * 1000]

\* ------------------------------------------------------------ DataFrames
RECURSIVE Flatten(_)
Flatten(ss) == IF ss = <<>> THEN <<>> ELSE Head(ss) \o Flatten(Tail(ss))

\* spark.read.json: one row per record, in the order of the source.
read_json(records) == [i \in 1..Len(records) |-> [line |-> i] @@ records[i]]

\* process_song_data ------------------------------------------------------
songs_table(df) ==
    [i \in 1..Len(df) |->
        LET r == df[i]
        IN  [song_id |-> r.song_id, title |-> r.title, artist_id |-> r.artist_id,
             year |-> r.year, duration |-> r.duration]]

artists_table(df) ==
    [i \in 1..Len(df) |->
        LET r == df[i]
        IN  [artist_id |-> r.artist_id, name |-> r.artist_name,
             location |-> r.artist_location, latitude |-> r.artist_latitude,
             longitude |-> r.artist_longitude]]

\* process_log_data -------------------------------------------------------
\* Variant without the filter on page.
FilterNone(df) == df

\* df.filter(df.page == "NextSong"): a null page compares to null, not true.
FilterPlays(df) == SelectSeq(df, LAMBDA r : r.page # NULL /\ r.page = "NextSong")

users_table(df) ==
    [i \in 1..Len(df) |->
        LET r == df[i]
        IN  [line |-> r.line, user_id |-> r.userId, first_name |-> r.firstName,
             last_name |-> r.lastName, gender |-> r.gender, level |-> r.level]]

\* The udf raises on a row whose ts is null; only the rows that passed the
\* filter reach it.
TsFails(df) == \E i \in 1..Len(df) : df[i].ts = <<>>

\* The withColumn chain: start_time, hour, day, week, month, year, weekday.
WithCalendar(df, off) ==
    [i \in 1..Len(df) |->
        LET r == df[i]
            t == get_timestamp(r.ts)
        IN  [start_time |-> t, hour |-> hour(t, off), day |-> dayofweek(t, off),
             week |-> weekofyear(t, off), month |-> month(t, off),
             year |-> year(t, off), weekday |-> dayofweek(t, off)] @@ r]

time_table(df) ==
    [i \in 1..Len(df) |->
        LET r == df[i]
        IN  [line |-> r.line, start_time |-> r.start_time, hour |-> r.hour,
             day |-> r.day, week |-> r.week, month |-> r.month, year |-> r.year,
             weekday |-> r.weekday]]

\* process_songplay_data --------------------------------------------------
\* Variant of the join condition that compares the titles only.
JoinOnTitle(l, s) == l.song # NULL /\ s.title # NULL /\ l.song = s.title

\* Column equality of Spark SQL: null on a null operand, which a join
\* condition treats as no match.
SqlEq(a, b) == a # NULL /\ b # NULL /\ a = b

JoinCond(l, s) == SqlEq(l.artist, s.artist_name) /\ SqlEq(l.song, s.title)

\* how='left': one joined row per matching catalog record, and one row with
\* no song side for a log row without a match.  A joined row keeps the two
\* sides apart, since both have a column named year.
LeftJoin(ldf, sdf) ==
    Flatten([i \in 1..Len(ldf) |->
        LET l == ldf[i]
            m == SelectSeq(sdf, LAMBDA s : JoinCond(l, s))
        IN  IF m = <<>> THEN << [log |-> l, song |-> <<>>] >>
            ELSE [k \in 1..Len(m) |-> [log |-> l, song |-> << m[k] >>]]])

\* The ways the engine may spread n rows over partitions: the rows of a
\* DataFrame are listed partition by partition; a partition may be empty.
Partitionings(n) ==
    { part \in [1..n -> 0..(MaxParts - 1)] :
        \A i, j \in 1..n : i < j => part[i] <= part[j] }

\* Variant of the id that leaves the partition index out.
RecordNumberOnly(part, i) ==
    << 0, Cardinality({ j \in 1..(i - 1) : part[j] = part[i] }) >>

\* monotonically_increasing_id() of row i when the rows are spread over
\* partitions as part says: (partition index, record number in the partition).
monotonically_increasing_id(part, i) ==
    << part[i], Cardinality({ j \in 1..(i - 1) : part[j] = part[i] }) >>

SongCol(r, c) == IF r.song = <<>> THEN NULL ELSE r.song[1][c]

\* Variant that selects the year column of the song side where there is one.
SelectSongYear(r) == IF r.song = <<>> THEN r.log.year ELSE r.song[1].year

\* The year column selected for the fact table: log_df["year"].
SelectYear(r) == r.log.year

songplays_table(df, part) ==
    [i \in 1..Len(df) |->
        LET r == df[i]
        IN  [line |-> r.log.line,
             songplay_id |-> monotonically_increasing_id(part, i),
             start_time |-> r.log.start_time, user_id |-> r.log.userId,
             level |-> r.log.level, song_id |-> SongCol(r, "song_id"),
             artist_id |-> SongCol(r, "artist_id"),
             session_id |-> r.log.sessionId, location |-> r.log.location,
             useragent |-> r.log.userAgent, year |-> SelectYear(r),
             month |-> r.log.month]]

\* ---------------------------------------------------------------- writer
SongsPath == "songs.parquet"
ArtistsPath == "artists.parquet"
UsersPath == "users.parquet"
TimePath == "time.parquet"
SongplaysPath == "songplay.parquet"

\* Variant of the writer in mode 'append'.
AppendParquet(st, path, keys, rows) ==
    [p \in DOMAIN st \cup {path} |->
        IF p = path
        THEN [partitionBy |-> keys,
              rows |-> (IF path \in DOMAIN st THEN st[path].rows ELSE << >>) \o rows]
        ELSE st[p]]

\* DataFrameWriter.parquet(path, 'overwrite'): the dataset at path becomes
\* exactly the rows written, laid out by the keys.
WriteParquet(st, path, keys, rows) ==
    [p \in DOMAIN st \cup {path} |->
        IF p = path THEN [partitionBy |-> keys, rows |-> rows] ELSE st[p]]

\* Variant of a failing write that clears the whole output directory.
FailedWriteCleansUp(st, path, keys, rows) == { << >> }

\* What a write that raises may leave at path: the old dataset, nothing (the
\* overwrite removed it), or a part of the new rows (none of them, or all
\* but the last).  Other paths are not touched.
FailedWrite(st, path, keys, rows) ==
    {st} \cup {[p \in DOMAIN st \ {path} |-> st[p]]}
         \cup {WriteParquet(st, path, keys, SubSeq(rows, 1, k)) :
                    k \in {0, Len(rows) - 1} \cap 0..(Len(rows) - 1)}

\* ------------------------------------------------------------------ main
\* The order of the statements of main() and of the functions it calls.
Order == << "read_song", "write_songs", "write_artists", "read_log",
            "write_users", "write_time", "join", "write_songplays" >>

\* Variant of the order that reads the log before it writes the song tables.
NextStepLogFirst(s) ==
    LET order == << "read_song", "read_log", "write_songs", "write_artists",
                    "write_users", "write_time", "join", "write_songplays" >>
        i == CHOOSE k \in 1..Len(order) : order[k] = s
    IN  IF i = Len(order) THEN "done" ELSE order[i + 1]

NextStep(s) ==
    LET i == CHOOSE k \in 1..Len(Order) : Order[k] = s
    IN  IF i = Len(Order) THEN "done" ELSE Order[i + 1]

NoFailure == [kind |-> "none", at |-> "none"]

Completed(s) ==
    /\ pc' = NextStep(s)
    /\ trace' = Append(trace, s)
    /\ UNCHANGED failure

\* Variant in which the exception is caught and the run goes on.
AbortSwallowed(s, kind) ==
    /\ pc' = NextStep(s)
    /\ failure' = [kind |-> kind, at |-> s]
    /\ UNCHANGED trace

\* An exception propagates out of main(): nothing catches it.
Abort(s, kind) ==
    /\ pc' = "aborted"
    /\ failure' = [kind |-> kind, at |-> s]
    /\ UNCHANGED trace

Start(songPool, logPool, offsets) ==
    /\ songs_in \in SeqsUpTo(songPool, MaxSongs)
    /\ logs_in \in SeqsUpTo(logPool, MaxLogs)
    /\ tz \in offsets
    /\ store = << >>
    /\ pc = Order[1]
    /\ song_df = << >>
    /\ log_df = << >>
    /\ joined = << >>
    /\ rerun = FALSE
    /\ trace = << >>
    /\ failure = NoFailure
    /\ before = << >>
    /\ prevDone = FALSE

Init == Start(SongPool, LogPool, TzOffsets)
InitRerun == Start(RerunSongPool, RerunLogPool, RerunTzOffsets)

Inputs == <<songs_in, logs_in, tz>>
History == <<rerun, before, prevDone>>

\* A write statement: it replaces the dataset, or raises.
Write(s, path, keys, rows) ==
    \/ /\ store' = WriteParquet(store, path, keys, rows)
       /\ Completed(s)
    \/ /\ store' \in FailedWrite(store, path, keys, rows)
       /\ Abort(s, "WriteError")

\* spark.read.json(input_data) and the select built on it: raises when the
\* path cannot be read, and when it holds no record (no column to select).
ReadSong ==
    /\ pc = "read_song"
    /\ \/ /\ songs_in # << >>
          /\ song_df' = read_json(songs_in)
          /\ Completed("read_song")
       \/ /\ Abort("read_song", "SourceReadError")
          /\ UNCHANGED song_df
    /\ UNCHANGED <<Inputs, History, store, log_df, joined>>

\* Variant that partitions the songs by (artist_id, year).
WriteSongsByArtistYear ==
    /\ pc = "write_songs"
    /\ Write("write_songs", SongsPath, <<"artist_id", "year">>, songs_table(song_df))
    /\ UNCHANGED <<Inputs, History, song_df, log_df, joined>>

WriteSongs ==
    /\ pc = "write_songs"
    /\ Write("write_songs", SongsPath, <<"year", "artist_id">>, songs_table(song_df))
    /\ UNCHANGED <<Inputs, History, song_df, log_df, joined>>

WriteArtists ==
    /\ pc = "write_artists"
    /\ Write("write_artists", ArtistsPath, << >>, artists_table(song_df))
    /\ UNCHANGED <<Inputs, History, song_df, log_df, joined>>

\* spark.read.json(input_data), df.page and the filter.
ReadLog ==
    /\ pc = "read_log"
    /\ \/ /\ logs_in # << >>
          /\ log_df' = FilterPlays(read_json(logs_in))
          /\ Completed("read_log")
       \/ /\ Abort("read_log", "SourceReadError")
          /\ UNCHANGED log_df
    /\ UNCHANGED <<Inputs, History, store, song_df, joined>>

WriteUsers ==
    /\ pc = "write_users"
    /\ Write("write_users", UsersPath, << >>, users_table(log_df))
    /\ UNCHANGED <<Inputs, History, song_df, log_df, joined>>

\* The calendar columns and the write of the time table, the first job that
\* evaluates the udf.
WriteTime ==
    /\ pc = "write_time"
    /\ IF TsFails(log_df)
       THEN /\ store' \in FailedWrite(store, TimePath, <<"year", "month">>, << >>)
            /\ Abort("write_time", "TimestampConversionError")
            /\ UNCHANGED log_df
       ELSE /\ Write("write_time", TimePath, <<"year", "month">>,
                     time_table(WithCalendar(log_df, tz)))
            /\ log_df' = WithCalendar(log_df, tz)
    /\ UNCHANGED <<Inputs, History, song_df, joined>>

JoinStep ==
    /\ pc = "join"
    /\ joined' = LeftJoin(log_df, song_df)
    /\ Completed("join")
    /\ UNCHANGED <<Inputs, History, store, song_df, log_df>>

\* The write of the fact table; the engine decides how the joined rows are
\* spread over partitions.
WriteSongplays ==
    /\ pc = "write_songplays"
    /\ \E part \in Partitionings(Len(joined)) :
          Write("write_songplays", SongplaysPath, <<"year", "month">>,
                songplays_table(joined, part))
    /\ UNCHANGED <<Inputs, History, song_df, log_df, joined>>

\* main() is invoked again, on the same inputs and the same OUTPUT_DATA.
\* A run reads nothing of the run before it but the datasets it left, so one
\* repetition shows every way a run meets the output of an earlier one.
Rerun ==
    /\ pc \in {"done", "aborted"}
    /\ ~rerun
    /\ rerun' = TRUE
    /\ before' = store
    /\ prevDone' = (pc = "done")
    /\ pc' = Order[1]
    /\ trace' = << >>
    /\ failure' = NoFailure
    /\ song_df' = << >>
    /\ log_df' = << >>
    /\ joined' = << >>
    /\ UNCHANGED <<Inputs, store>>

\* One invocation of main().
Next ==
    \/ ReadSong
    \/ WriteSongs
    \/ WriteArtists
    \/ ReadLog
    \/ WriteUsers
    \/ WriteTime
    \/ JoinStep
    \/ WriteSongplays

Spec == Init /\ [][Next]_vars

\* main() invoked twice in succession.
NextRerun ==
    \/ Next
    \/ Rerun

SpecRerun == InitRerun /\ [][NextRerun]_vars

\* ================================================================ claims
Range(f) == { f[i] : i \in DOMAIN f }
RowsAt(st, path) == IF path \in DOMAIN st THEN st[path].rows ELSE << >>
Plays == { i \in 1..Len(logs_in) : logs_in[i].page = "NextSong" }
WriteSteps == {"write_songs", "write_artists", "write_users", "write_time",
               "write_songplays"}
AllPaths == {SongsPath, ArtistsPath, UsersPath, TimePath, SongplaysPath}
\* The dataset at path is what this run found there (or still absent).
Untouched(path) ==
    /\ path \in DOMAIN store <=> path \in DOMAIN before
    /\ path \in DOMAIN store => store[path] = before[path]

\* C1: when a run completes, the songplays table has as many rows as the log
\* has rows with page == "NextSong", and every such log row appears exactly
\* once in it, whatever the catalog.
C1_JoinTotality ==
    pc = "done" =>
        LET rows == RowsAt(store, SongplaysPath)
        IN  /\ Len(rows) = Cardinality(Plays)
            /\ \A i \in Plays :
                  Cardinality({ k \in 1..Len(rows) : rows[k].line = i }) = 1

\* C2: every row of the users, time and songplays datasets comes from a log
\* row whose page is "NextSong" (and carries that row's user or timestamp); a
\* log row with another page has no row in any of the three.
C2_OnlyPlaysDownstream ==
    /\ \A path \in {UsersPath, TimePath, SongplaysPath} :
          \A r \in Range(RowsAt(store, path)) :
              /\ r.line \in 1..Len(logs_in)
              /\ logs_in[r.line].page = "NextSong"
    /\ \A r \in Range(RowsAt(store, UsersPath)) \cup Range(RowsAt(store, SongplaysPath)) :
          r.user_id = logs_in[r.line].userId
    /\ \A r \in Range(RowsAt(store, TimePath)) \cup Range(RowsAt(store, SongplaysPath)) :
          r.start_time.sec = logs_in[r.line].ts[1]

\* A completed run over a log that mixes plays with other events.
C2_Witness ==
    /\ pc = "done"
    /\ Plays # {}
    /\ Plays # 1..Len(logs_in)
    /\ \A path \in {UsersPath, TimePath, SongplaysPath} : RowsAt(store, path) # << >>

\* C3: the songplay_id values of the rows of the songplays dataset are
\* pairwise distinct.
C3_SongplayIdsDistinct ==
    LET rows == RowsAt(store, SongplaysPath)
    IN  \A i, j \in 1..Len(rows) :
            i # j => rows[i].songplay_id # rows[j].songplay_id

\* A completed run whose joined rows went to two partitions, one of which
\* holds two rows of the same log row (it matched two catalog records).
C3_Witness ==
    LET rows == RowsAt(store, SongplaysPath)
    IN  /\ pc = "done"
        /\ \E i, j \in 1..Len(rows) :
              /\ i # j
              /\ rows[i].line = rows[j].line
              /\ rows[i].songplay_id[1] = rows[j].songplay_id[1]
        /\ \E i, j \in 1..Len(rows) : rows[i].songplay_id[1] # rows[j].songplay_id[1]

\* C4: every songplays row has the year and month of its own start_time, as
\* the calendar functions of the time table derive them, and the same year
\* and month as the time row of the same event.
C4_PartitionKeysFromStartTime ==
    \A r \in Range(RowsAt(store, SongplaysPath)) :
        /\ r.year = year(r.start_time, tz)
        /\ r.month = month(r.start_time, tz)
        /\ \A t \in Range(RowsAt(store, TimePath)) :
              t.line = r.line => t.year = r.year /\ t.month = r.month

\* A completed run with a songplays row matched to a catalog record whose
\* release year is not the year of the play.
C4_Witness ==
    /\ pc = "done"
    /\ \E r \in Range(RowsAt(store, SongplaysPath)) :
          \E s \in Range(songs_in) :
              /\ r.song_id = s.song_id
              /\ s.year # year(r.start_time, tz)

\* Identical row multisets, the songplay_id column left out.
WithoutId(r) == [c \in DOMAIN r \ {"songplay_id"} |-> r[c]]
SameRows(a, b) ==
    /\ Len(a) = Len(b)
    /\ \A x \in { WithoutId(r) : r \in Range(a) \cup Range(b) } :
          Cardinality({ i \in 1..Len(a) : WithoutId(a[i]) = x })
              = Cardinality({ i \in 1..Len(b) : WithoutId(b[i]) = x })

\* C5: when main() has completed twice in succession on the same inputs,
\* each of the five datasets holds after the second run the multiset of rows
\* it held after the first (songplay_id left out).
C5_RerunSameRows ==
    (pc = "done" /\ rerun /\ prevDone) =>
        \A path \in AllPaths :
            /\ path \in DOMAIN store
            /\ path \in DOMAIN before
            /\ SameRows(store[path].rows, before[path].rows)

\* Two completed runs that gave the rows of the fact table different ids.
C5_Witness ==
    /\ pc = "done" /\ rerun /\ prevDone
    /\ RowsAt(store, SongsPath) # << >>
    /\ RowsAt(store, SongplaysPath) # << >>
    /\ RowsAt(store, SongplaysPath) # RowsAt(before, SongplaysPath)

\* C6: a songplays row whose log row has no catalog record with the same
\* artist name and the same title has null song_id and artist_id; any other
\* row has the ids of a catalog record with both; and when a run completes
\* every play has a row.
C6_JoinPredicate ==
    /\ \A r \in Range(RowsAt(store, SongplaysPath)) :
          LET l == logs_in[r.line]
              M == { s \in Range(songs_in) :
                        s.artist_name = l.artist /\ s.title = l.song }
          IN  IF M = {}
              THEN r.song_id = NULL /\ r.artist_id = NULL
              ELSE \E s \in M : r.song_id = s.song_id /\ r.artist_id = s.artist_id
    /\ pc = "done" =>
          \A i \in Plays : \E r \in Range(RowsAt(store, SongplaysPath)) : r.line = i

\* A completed run with an attributed row, and a row left without ids although
\* a catalog record has its title and a catalog record has its artist.
C6_Witness ==
    /\ pc = "done"
    /\ \E r \in Range(RowsAt(store, SongplaysPath)) : r.song_id # NULL
    /\ \E r \in Range(RowsAt(store, SongplaysPath)) :
          /\ r.song_id = NULL
          /\ \E s \in Range(songs_in) : s.title = logs_in[r.line].song
          /\ \E s \in Range(songs_in) : s.artist_name = logs_in[r.line].artist

\* C7: once reading the song source has failed, the run has written nothing
\* and every dataset is as the run found it; once reading the log source has
\* failed, the run has written neither users, time nor songplays and these
\* three are as the run found them.
C7_ReadFailureWritesNothingDownstream ==
    failure.kind = "SourceReadError" =>
        /\ failure.at \in {"read_song", "read_log"}
        /\ failure.at = "read_song" =>
              /\ Range(trace) \cap WriteSteps = {}
              /\ \A path \in AllPaths : Untouched(path)
        /\ failure.at = "read_log" =>
              /\ Range(trace) \cap {"write_users", "write_time", "write_songplays"} = {}
              /\ \A path \in {UsersPath, TimePath, SongplaysPath} : Untouched(path)

\* A second run that failed to read the log after the first run completed.
C7_Witness ==
    /\ pc = "aborted" /\ rerun /\ prevDone
    /\ failure = [kind |-> "SourceReadError", at |-> "read_log"]
    /\ RowsAt(store, UsersPath) # << >>

\* C8: a completed run leaves exactly the five datasets, each written by its
\* own write of this run: songs by (year, artist_id), artists and users
\* unpartitioned, time and songplays by (year, month).
C8_FiveDatasets ==
    pc = "done" =>
        /\ DOMAIN store = AllPaths
        /\ WriteSteps \subseteq Range(trace)
        /\ store[SongsPath].partitionBy = <<"year", "artist_id">>
        /\ store[ArtistsPath].partitionBy = << >>
        /\ store[UsersPath].partitionBy = << >>
        /\ store[TimePath].partitionBy = <<"year", "month">>
        /\ store[SongplaysPath].partitionBy = <<"year", "month">>
        /\ Len(store[SongsPath].rows) = Len(songs_in)
        /\ Len(store[ArtistsPath].rows) = Len(songs_in)

\* A completed second run over the datasets of a completed first run.
C8_Witness ==
    /\ pc = "done" /\ rerun /\ prevDone
    /\ DOMAIN before = AllPaths

\* C9: the steps of a run happen in the order read song data, write songs,
\* write artists, read log data, write users, write time, join, write
\* songplays; so the songplays write starts after the four dimension writes,
\* and a source is read or the join built after the writes before it.
C9_StepOrder ==
    LET order == << "read_song", "write_songs", "write_artists", "read_log",
                    "write_users", "write_time", "join", "write_songplays" >>
    IN  /\ Len(trace) <= Len(order)
        /\ \A k \in 1..Len(trace) : trace[k] = order[k]
        /\ pc \in Range(order) => pc = order[Len(trace) + 1]
        /\ pc = "done" => trace = order
        /\ pc = "write_songplays" =>
              {"write_songs", "write_artists", "write_users", "write_time"}
                  \subseteq Range(trace)
        /\ pc = "read_log" => {"write_songs", "write_artists"} \subseteq Range(trace)
        /\ pc = "join" => {"write_users", "write_time"} \subseteq Range(trace)

\* A run that went through all eight steps.
C9_Witness == pc = "done" /\ Len(trace) = 8 /\ RowsAt(store, SongplaysPath) # << >>

\* This run's output for the four dimension datasets.
Produced(path) ==
    LET sdf == read_json(songs_in)
        ldf == FilterPlays(read_json(logs_in))
    IN  CASE path = SongsPath -> songs_table(sdf)
          [] path = ArtistsPath -> artists_table(sdf)
          [] path = UsersPath -> users_table(ldf)
          [] path = TimePath -> time_table(WithCalendar(ldf, tz))

DatasetOrder == << SongsPath, ArtistsPath, UsersPath, TimePath, SongplaysPath >>
StepOf(path) ==
    CASE path = SongsPath -> "write_songs"
      [] path = ArtistsPath -> "write_artists"
      [] path = UsersPath -> "write_users"
      [] path = TimePath -> "write_time"
      [] path = SongplaysPath -> "write_songplays"

\* C10: when a run aborts at the step that produces dataset k, the datasets
\* after k are as the run found them and the datasets before k hold this
\* run's output; a null ts aborts the run at the time table, after songs,
\* artists and users were replaced and before songplays is written.
C10_AbortKeepsLaterReplacesEarlier ==
    /\ (pc = "aborted" /\ failure.at \in WriteSteps) =>
          \E k \in 1..Len(DatasetOrder) :
              /\ failure.at = StepOf(DatasetOrder[k])
              /\ \A j \in (k + 1)..Len(DatasetOrder) : Untouched(DatasetOrder[j])
              /\ \A j \in 1..(k - 1) :
                    /\ DatasetOrder[j] \in DOMAIN store
                    /\ store[DatasetOrder[j]].rows = Produced(DatasetOrder[j])
    /\ failure.kind = "TimestampConversionError" =>
          /\ pc = "aborted"
          /\ failure.at = "write_time"
          /\ {"write_songs", "write_artists", "write_users"} \subseteq Range(trace)
          /\ "write_songplays" \notin Range(trace)
    /\ (pc \notin {"done", "aborted"} /\ \E i \in 1..Len(log_df) : log_df[i].ts = << >>) =>
          "write_time" \notin Range(trace)

\* A second run that a null ts aborted after it replaced the users dataset a
\* failed write of the first run had left.
C10_Witness ==
    /\ pc = "aborted" /\ rerun
    /\ failure.kind = "TimestampConversionError"
    /\ UsersPath \in DOMAIN before
    /\ before[UsersPath] # store[UsersPath]
    /\ RowsAt(store, UsersPath) # << >>

====
